---- MODULE Spec2Model ----
(***************************************************************************)
(* ovq: the query subsystem.  src/query/parser.rs (recursive-descent       *)
(* parser over the bytes of a UTF-8 query string), src/query/eval.rs (the  *)
(* evaluator over one document's decoded frontmatter) and the part of      *)
(* src/main.rs that drives them.                                           *)
(*                                                                         *)
(* A Rust &str is modelled as the sequence of its bytes.  An ASCII         *)
(* character is one element, the character itself ("a", "=", " ").  A      *)
(* multi-byte character is its lead byte, written as the code point        *)
(* ("U+00E9"), followed by its continuation bytes, each written CONT.      *)
(* Slicing a &str at an index that is not a character boundary panics;     *)
(* that is why the byte structure is kept.                                 *)
(***************************************************************************)
EXTENDS Integers, Sequences, FiniteSets, TLC

VARIABLES input, outcome, expr, frontmatter, verdict, pc,
          frontmatters, cursor, found, stdout, stderr, exit_code, evaluated,
          call_stack, self_pos, returned, step_count

\* the state of a whole query run (run_query_mode): the documents, the
\* position of the for loop, the found flag, the two output streams, the
\* returned ExitCode, and the history of the documents handed to evaluate
run_vars == <<frontmatters, cursor, found, stdout, stderr, exit_code, evaluated>>

\* the state of a parse followed call by call: the stack of the active calls
\* of parse, parse_or, parse_and and parse_primary, the parser's position
\* self.pos, the value the last finished call returned, and the number of
\* steps taken
step_vars == <<call_stack, self_pos, returned, step_count>>

vars == <<input, outcome, expr, frontmatter, verdict, pc, run_vars, step_vars>>

(***************************************************************************)
(* Characters                                                              *)
(***************************************************************************)
CONT == "cont"

LowerSeq == <<"a","b","c","d","e","f","g","h","i","j","k","l","m",
              "n","o","p","q","r","s","t","u","v","w","x","y","z">>
UpperSeq == <<"A","B","C","D","E","F","G","H","I","J","K","L","M",
              "N","O","P","Q","R","S","T","U","V","W","X","Y","Z">>
DigitSeq == <<"0","1","2","3","4","5","6","7","8","9">>

Range(s) == {s[i] : i \in DOMAIN s}

AsciiLower == Range(LowerSeq)
AsciiUpper == Range(UpperSeq)
AsciiDigit == Range(DigitSeq)

\* Non-ASCII characters of the model: e-acute and E-acute (alphabetic, two
\* bytes), no-break space (white space, two bytes), euro sign (three bytes).
E_ACUTE_LOWER == "U+00E9"
E_ACUTE_UPPER == "U+00C9"
NBSP == "U+00A0"
EURO == "U+20AC"

is_ascii_digit(c) == c \in AsciiDigit

is_alphanumeric(c) == c \in AsciiLower \cup AsciiUpper \cup AsciiDigit \cup {E_ACUTE_LOWER, E_ACUTE_UPPER}

is_whitespace(c) == c \in {" ", "\t", NBSP}

IndexIn(s, c) == CHOOSE i \in DOMAIN s : s[i] = c

to_ascii_lowercase(c) == IF c \in AsciiUpper THEN LowerSeq[IndexIn(UpperSeq, c)] ELSE c

char_to_lowercase(c) ==
    IF c \in AsciiUpper THEN LowerSeq[IndexIn(UpperSeq, c)]
    ELSE IF c = E_ACUTE_UPPER THEN E_ACUTE_LOWER
    ELSE c

DigitVal(c) == IndexIn(DigitSeq, c) - 1

eq_ignore_ascii_case(a, b) ==
    /\ Len(a) = Len(b)
    /\ \A i \in DOMAIN a : to_ascii_lowercase(a[i]) = to_ascii_lowercase(b[i])

\* s[from..to) with 0-based byte offsets, as Rust's &s[from..to]
Slice(s, from, to) == SubSeq(s, from + 1, to)

is_char_boundary(s, p) ==
    \/ p = 0
    \/ p = Len(s)
    \/ p > 0 /\ p < Len(s) /\ s[p + 1] # CONT

starts_with(s, prefix) ==
    /\ Len(s) >= Len(prefix)
    /\ SubSeq(s, 1, Len(prefix)) = prefix

(***************************************************************************)
(* Results of the parser's methods.  Ok carries the value and the parser   *)
(* position after the call; Err is a ParseError {message, pos}; Panic is a *)
(* Rust panic (the process aborts, no Result is returned).                 *)
(***************************************************************************)
Ok(v, p) == [tag |-> "Ok", val |-> v, pos |-> p]

ParseError(m, p) == [tag |-> "Err", message |-> m, pos |-> p]

Panic == [tag |-> "Panic"]

\* The character at pos, NUL past the end, "panic" off a character boundary.
NUL == "NUL"

current_char(s, pos) ==
    IF pos > Len(s) \/ ~is_char_boundary(s, pos) THEN "panic"
    ELSE IF pos = Len(s) THEN NUL
    ELSE s[pos + 1]

RECURSIVE skip_whitespace(_, _)
skip_whitespace(s, pos) ==
    IF pos < Len(s)
    THEN LET c == current_char(s, pos) IN
         IF c = "panic" THEN Panic
         ELSE IF is_whitespace(c) THEN skip_whitespace(s, pos + 1)
         ELSE Ok(TRUE, pos)
    ELSE Ok(TRUE, pos)

match_char(s, pos, c) ==
    IF pos < Len(s)
    THEN LET cur == current_char(s, pos) IN
         IF cur = "panic" THEN Panic
         ELSE IF cur = c THEN Ok(TRUE, pos + 1) ELSE Ok(FALSE, pos)
    ELSE Ok(FALSE, pos)

match_str(s, pos, lit) ==
    IF ~is_char_boundary(s, pos) THEN Panic
    ELSE IF starts_with(Slice(s, pos, Len(s)), lit) THEN Ok(TRUE, pos + Len(lit))
    ELSE Ok(FALSE, pos)

\* chars().nth(n): the n-th character (0-based) of a string, "None" if absent
NonCont(b) == b # CONT

chars_nth(s, n) ==
    LET cs == SelectSeq(s, NonCont) IN
    IF n < Len(cs) THEN cs[n + 1] ELSE "None"

\* match_keyword without the test of the character after the keyword
match_keyword_NoBoundary(s, pos, kw) ==
    LET remaining == Slice(s, pos, Len(s)) IN
    IF ~is_char_boundary(s, pos) THEN Panic
    ELSE IF Len(remaining) < Len(kw) THEN Ok(FALSE, pos)
    ELSE IF ~is_char_boundary(remaining, Len(kw)) THEN Panic
    ELSE IF ~eq_ignore_ascii_case(Slice(remaining, 0, Len(kw)), kw) THEN Ok(FALSE, pos)
    ELSE Ok(TRUE, pos + Len(kw))

\* match_keyword that reports the keyword without moving past it
match_keyword_NoAdvance(s, pos, kw) ==
    LET remaining == Slice(s, pos, Len(s)) IN
    IF ~is_char_boundary(s, pos) THEN Panic
    ELSE IF Len(remaining) < Len(kw) THEN Ok(FALSE, pos)
    ELSE IF ~is_char_boundary(remaining, Len(kw)) THEN Panic
    ELSE IF ~eq_ignore_ascii_case(Slice(remaining, 0, Len(kw)), kw) THEN Ok(FALSE, pos)
    ELSE LET after == chars_nth(remaining, Len(kw)) IN
         IF after = "None" \/ (~is_alphanumeric(after) /\ after # "_")
         THEN Ok(TRUE, pos)
         ELSE Ok(FALSE, pos)

match_keyword(s, pos, kw) ==
    LET remaining == Slice(s, pos, Len(s)) IN
    IF ~is_char_boundary(s, pos) THEN Panic
    ELSE IF Len(remaining) < Len(kw) THEN Ok(FALSE, pos)
    ELSE IF ~is_char_boundary(remaining, Len(kw)) THEN Panic
    ELSE IF ~eq_ignore_ascii_case(Slice(remaining, 0, Len(kw)), kw) THEN Ok(FALSE, pos)
    ELSE LET after == chars_nth(remaining, Len(kw)) IN
         IF after = "None" \/ (~is_alphanumeric(after) /\ after # "_")
         THEN Ok(TRUE, pos + Len(kw))
         ELSE Ok(FALSE, pos)

KW_OR == <<"O","R">>
KW_AND == <<"A","N","D">>
KW_contains == <<"c","o","n","t","a","i","n","s">>
KW_true == <<"t","r","u","e">>
KW_false == <<"f","a","l","s","e">>

(***************************************************************************)
(* Literal values and expressions (src/query/ast.rs)                       *)
(*                                                                         *)
(* An f64 is modelled as an exact decimal [m, e] meaning m / 10^e, with    *)
(* trailing zeros of the fraction removed, so that "1", "1.0" and "1." are *)
(* one value.  Tokens of the model have at most MaxDigits digits, far      *)
(* below the 15 significant digits an f64 keeps exactly apart.             *)
(***************************************************************************)
MaxDigits == 9

U8_MAX == 255

I32_MAX == 2147483647

StringValue(s) == [kind |-> "String", s |-> s]

NumberValue(n) == [kind |-> "Number", n |-> n]

BoolValue(b) == [kind |-> "Bool", b |-> b]

Date(y, m, d) == [year |-> y, month |-> m, day |-> d]

DateValue(d) == [kind |-> "Date", d |-> d]

Compare(f, op, v) == [type |-> "Compare", field |-> f, op |-> op, value |-> v]

Contains(f, v) == [type |-> "Contains", field |-> f, value |-> v]

And(l, r) == [type |-> "And", left |-> l, right |-> r]

Or(l, r) == [type |-> "Or", left |-> l, right |-> r]

CompareOp == {"Eq", "Ne", "Gt", "Lt", "Ge", "Le"}

None == [some |-> FALSE]

Some(v) == [some |-> TRUE, v |-> v]

RECURSIVE DecimalValue(_)
DecimalValue(ds) ==
    IF ds = <<>> THEN 0
    ELSE 10 * DecimalValue(SubSeq(ds, 1, Len(ds) - 1)) + DigitVal(ds[Len(ds)])

RECURSIVE NormDecimal(_, _)
NormDecimal(m, e) ==
    IF e > 0 /\ m % 10 = 0 THEN NormDecimal(m \div 10, e - 1) ELSE [m |-> m, e |-> e]

AllDigits(s) == \A i \in DOMAIN s : is_ascii_digit(s[i])

\* str::parse::<i32>() and str::parse::<u8>(): an optional sign ('-' only for
\* a signed type), then one or more ASCII digits, within the type's range.
parse_int(s, signed, max) ==
    LET hasSign == s # <<>> /\ (s[1] = "+" \/ (signed /\ s[1] = "-"))
        digits == IF hasSign THEN Tail(s) ELSE s
        neg == hasSign /\ s[1] = "-"
    IN  IF digits = <<>> \/ ~AllDigits(digits) \/ Len(digits) > MaxDigits THEN None
        ELSE LET v == DecimalValue(digits) IN
             IF neg THEN (IF v > max + 1 THEN None ELSE Some(0 - v))
             ELSE IF v > max THEN None ELSE Some(v)

parse_i32(s) == parse_int(s, TRUE, I32_MAX)

parse_u8(s) == parse_int(s, FALSE, U8_MAX)

\* str::parse::<f64>() on a token: optional sign, digits with at most one
\* '.', at least one digit.  (Exponents, "inf" and "nan" need letters.)
parse_f64(s) ==
    LET hasSign == s # <<>> /\ s[1] \in {"+", "-"}
        body == IF hasSign THEN Tail(s) ELSE s
        dots == {i \in DOMAIN body : body[i] = "."}
        dot == IF dots = {} THEN Len(body) + 1 ELSE CHOOSE i \in dots : TRUE
        int == SubSeq(body, 1, dot - 1)
        frac == SubSeq(body, dot + 1, Len(body))
    IN  IF Cardinality(dots) > 1 \/ ~AllDigits(int) \/ ~AllDigits(frac)
           \/ Len(int) + Len(frac) = 0 \/ Len(int) + Len(frac) > MaxDigits
        THEN None
        ELSE LET n == NormDecimal(DecimalValue(int \o frac), Len(frac)) IN
             Some([m |-> IF hasSign /\ s[1] = "-" THEN 0 - n.m ELSE n.m, e |-> n.e])

\* str::split(sep).collect(): the pieces between separators, in order
RECURSIVE split(_, _)
split(s, sep) ==
    LET hits == {i \in DOMAIN s : s[i] = sep} IN
    IF hits = {} THEN <<s>>
    ELSE LET i == CHOOSE j \in hits : \A k \in hits : j <= k IN
         <<SubSeq(s, 1, i - 1)>> \o split(SubSeq(s, i + 1, Len(s)), sep)

try_parse_date(s) ==
    LET parts == split(s, "-") IN
    IF Len(parts) # 3 THEN None
    ELSE LET year == parse_i32(parts[1])
             month == parse_u8(parts[2])
             day == parse_u8(parts[3])
         IN  IF ~year.some \/ ~month.some \/ ~day.some THEN None
             ELSE IF ~(month.v \in 1..12) \/ ~(day.v \in 1..31) THEN None
             ELSE Some(Date(year.v, month.v, day.v))

(***************************************************************************)
(* The parser (src/query/parser.rs).  Every method takes the input and the *)
(* position self.pos on entry and returns Ok(value, position on return),   *)
(* a ParseError, or Panic.                                                 *)
(***************************************************************************)
error(message, pos) == ParseError(message, pos)

\* The `?` operator and the sequencing of statements: a call that did not
\* return Ok ends the method with its result; otherwise the rest of the
\* method runs with the call's value and position.
Then(r, rest(_)) == IF r.tag # "Ok" THEN r ELSE rest(r)

\* the while loop of parse_identifier
RECURSIVE identifier_loop(_, _)
identifier_loop(s, pos) ==
    IF pos < Len(s)
    THEN LET c == current_char(s, pos) IN
         IF c = "panic" THEN Panic
         ELSE IF is_alphanumeric(c) \/ c = "_" \/ c = "-" THEN identifier_loop(s, pos + 1)
         ELSE Ok(TRUE, pos)
    ELSE Ok(TRUE, pos)

parse_identifier(s, pos0) ==
    Then(skip_whitespace(s, pos0), LAMBDA start :
    Then(identifier_loop(s, start.pos), LAMBDA l :
        IF l.pos = start.pos THEN error("Expected identifier", l.pos)
        ELSE Ok(Slice(s, start.pos, l.pos), l.pos)))

parse_operator(s, pos0) ==
    Then(skip_whitespace(s, pos0), LAMBDA w :
        IF match_str(s, w.pos, <<">", "=">>).val THEN Ok("Ge", w.pos + 2)
        ELSE IF match_str(s, w.pos, <<"<", "=">>).val THEN Ok("Le", w.pos + 2)
        ELSE IF match_str(s, w.pos, <<"!", "=">>).val THEN Ok("Ne", w.pos + 2)
        ELSE IF match_char(s, w.pos, "=").val THEN Ok("Eq", w.pos + 1)
        ELSE IF match_char(s, w.pos, ">").val THEN Ok("Gt", w.pos + 1)
        ELSE IF match_char(s, w.pos, "<").val THEN Ok("Lt", w.pos + 1)
        ELSE error("Expected operator (=, !=, >, <, >=, <=)", w.pos))

\* the while loop of parse_string
RECURSIVE string_loop(_, _)
string_loop(s, pos) ==
    IF pos < Len(s)
    THEN LET c == current_char(s, pos) IN
         IF c = "panic" THEN Panic
         ELSE IF c # "\"" THEN string_loop(s, pos + 1)
         ELSE Ok(TRUE, pos)
    ELSE Ok(TRUE, pos)

parse_string(s, start) ==
    Then(string_loop(s, start), LAMBDA l :
    Then(match_char(s, l.pos, "\""), LAMBDA q :
        IF ~q.val THEN error("Unterminated string", q.pos)
        ELSE Ok(StringValue(Slice(s, start, l.pos)), q.pos)))

\* the while loop of parse_number_or_date
RECURSIVE number_loop(_, _)
number_loop(s, pos) ==
    IF pos < Len(s)
    THEN LET c == current_char(s, pos) IN
         IF c = "panic" THEN Panic
         ELSE IF is_ascii_digit(c) \/ c = "." \/ c = "-" THEN number_loop(s, pos + 1)
         ELSE Ok(TRUE, pos)
    ELSE Ok(TRUE, pos)

\* the end of parse_number_or_date: the token text read as a date, else as
\* a number
date_or_number(text, pos) ==
    LET date == try_parse_date(text)
        num == parse_f64(text)
    IN  IF date.some THEN Ok(DateValue(date.v), pos)
        ELSE IF num.some THEN Ok(NumberValue(num.v), pos)
        ELSE error("Invalid number", pos)

parse_number_or_date(s, start) ==
    Then(match_char(s, start, "-"), LAMBDA negative :
    Then(number_loop(s, negative.pos), LAMBDA l :
        IF l.pos = start \/ (negative.val /\ l.pos = start + 1)
        THEN error("Expected number or date", l.pos)
        ELSE date_or_number(Slice(s, start, l.pos), l.pos)))

parse_value(s, pos0) ==
    Then(skip_whitespace(s, pos0), LAMBDA w :
    Then(match_char(s, w.pos, "\""), LAMBDA q :
        IF q.val THEN parse_string(s, q.pos)
        ELSE Then(match_keyword(s, w.pos, KW_true), LAMBDA t :
            IF t.val THEN Ok(BoolValue(TRUE), t.pos)
            ELSE Then(match_keyword(s, w.pos, KW_false), LAMBDA f :
                IF f.val THEN Ok(BoolValue(FALSE), f.pos)
                ELSE parse_number_or_date(s, w.pos)))))

RECURSIVE parse_or(_, _)
RECURSIVE or_loop(_, _, _)
RECURSIVE parse_and(_, _)
RECURSIVE and_loop(_, _, _)
RECURSIVE parse_primary(_, _)

\* parse_comparison accepting only a string literal after `contains`
parse_comparison_StringOnly(s, pos0) ==
    Then(parse_identifier(s, pos0), LAMBDA field :
    Then(skip_whitespace(s, field.pos), LAMBDA w :
    Then(match_keyword(s, w.pos, KW_contains), LAMBDA k :
        IF k.val
        THEN Then(skip_whitespace(s, k.pos), LAMBDA w2 :
             Then(parse_value(s, w2.pos), LAMBDA value :
                 IF value.val.kind # "String" THEN error("Expected string", value.pos)
                 ELSE Ok(Contains(field.val, value.val), value.pos)))
        ELSE Then(parse_operator(s, w.pos), LAMBDA op :
             Then(skip_whitespace(s, op.pos), LAMBDA w3 :
             Then(parse_value(s, w3.pos), LAMBDA value :
                 Ok(Compare(field.val, op.val, value.val), value.pos)))))))

\* parse_primary after the '(' test failed: a comparison or a contains test
parse_comparison(s, pos0) ==
    Then(parse_identifier(s, pos0), LAMBDA field :
    Then(skip_whitespace(s, field.pos), LAMBDA w :
    Then(match_keyword(s, w.pos, KW_contains), LAMBDA k :
        IF k.val
        THEN Then(skip_whitespace(s, k.pos), LAMBDA w2 :
             Then(parse_value(s, w2.pos), LAMBDA value :
                 Ok(Contains(field.val, value.val), value.pos)))
        ELSE Then(parse_operator(s, w.pos), LAMBDA op :
             Then(skip_whitespace(s, op.pos), LAMBDA w3 :
             Then(parse_value(s, w3.pos), LAMBDA value :
                 Ok(Compare(field.val, op.val, value.val), value.pos)))))))

parse_primary(s, pos0) ==
    Then(skip_whitespace(s, pos0), LAMBDA w :
    Then(match_char(s, w.pos, "("), LAMBDA open :
        IF open.val
        THEN Then(parse_or(s, open.pos), LAMBDA e :
             Then(skip_whitespace(s, e.pos), LAMBDA w2 :
             Then(match_char(s, w2.pos, ")"), LAMBDA close :
                 IF ~close.val THEN error("Expected ')'", close.pos)
                 ELSE Ok(e.val, close.pos))))
        ELSE parse_comparison(s, w.pos)))

\* the loop of parse_and, entered with the left operand built so far
and_loop(s, left, pos) ==
    Then(skip_whitespace(s, pos), LAMBDA w :
    Then(match_keyword(s, w.pos, KW_AND), LAMBDA k :
        IF ~k.val THEN Ok(left, k.pos)
        ELSE Then(parse_primary(s, k.pos), LAMBDA right :
            and_loop(s, And(left, right.val), right.pos))))

parse_and(s, pos) ==
    Then(parse_primary(s, pos), LAMBDA left : and_loop(s, left.val, left.pos))

\* the loop of parse_or with a primary, not an AND chain, as right operand
or_loop_PrimaryOperand(s, left, pos) ==
    Then(skip_whitespace(s, pos), LAMBDA w :
    Then(match_keyword(s, w.pos, KW_OR), LAMBDA k :
        IF ~k.val THEN Ok(left, k.pos)
        ELSE Then(parse_primary(s, k.pos), LAMBDA right :
            or_loop(s, Or(left, right.val), right.pos))))

\* the loop of parse_or, entered with the left operand built so far
or_loop(s, left, pos) ==
    Then(skip_whitespace(s, pos), LAMBDA w :
    Then(match_keyword(s, w.pos, KW_OR), LAMBDA k :
        IF ~k.val THEN Ok(left, k.pos)
        ELSE Then(parse_and(s, k.pos), LAMBDA right :
            or_loop(s, Or(left, right.val), right.pos))))

parse_or(s, pos) ==
    Then(parse_and(s, pos), LAMBDA left : or_loop(s, left.val, left.pos))

\* Parser::new(input).parse()
parse(s) ==
    Then(parse_or(s, 0), LAMBDA e :
    Then(skip_whitespace(s, e.pos), LAMBDA w :
        IF w.pos < Len(s) THEN error("Unexpected input after expression", w.pos)
        ELSE Ok(e.val, w.pos)))

(***************************************************************************)
(* Decoded frontmatter (serde_yaml::Value).  A mapping is the sequence of  *)
(* its entries <<key, value>> in document order; keys are values too and   *)
(* are pairwise distinct.  A number is an integer or a float, held as the  *)
(* exact decimal m / 10^e.                                                 *)
(***************************************************************************)
YNull == [t |-> "Null"]

YBool(b) == [t |-> "Bool", b |-> b]

YInt(i) == [t |-> "Number", float |-> FALSE, m |-> i, e |-> 0]

YFloat(m, e) == [t |-> "Number", float |-> TRUE, m |-> m, e |-> e]

YString(s) == [t |-> "String", s |-> s]

YSequence(items) == [t |-> "Sequence", items |-> items]

YMapping(entries) == [t |-> "Mapping", entries |-> entries]

\* Byte order of the model's characters (ASCII code order, then continuation
\* bytes, then the lead bytes of the multi-byte characters).
OrdSeq ==
    <<"\t", " ", "!", "\"", "(", ")", "+", "-", ".">> \o DigitSeq \o <<"<", "=", ">">>
    \o UpperSeq \o <<"[", "]", "_">> \o LowerSeq
    \o <<"~", CONT, NBSP, E_ACUTE_UPPER, E_ACUTE_LOWER, EURO>>

Ord(c) == IndexIn(OrdSeq, c)

\* Ord for str: lexicographic on bytes
RECURSIVE str_lt(_, _)
str_lt(a, b) ==
    IF b = <<>> THEN FALSE
    ELSE IF a = <<>> THEN TRUE
    ELSE IF a[1] # b[1] THEN Ord(a[1]) < Ord(b[1])
    ELSE str_lt(Tail(a), Tail(b))

\* Date ordered by day, then month, then year
date_lt_DayFirst(a, b) ==
    \/ a.day < b.day
    \/ a.day = b.day /\ a.month < b.month
    \/ a.day = b.day /\ a.month = b.month /\ a.year < b.year

\* derived Ord for Date: by year, then month, then day
date_lt(a, b) ==
    \/ a.year < b.year
    \/ a.year = b.year /\ a.month < b.month
    \/ a.year = b.year /\ a.month = b.month /\ a.day < b.day

RECURSIVE Pow10(_)
Pow10(n) == IF n = 0 THEN 1 ELSE 10 * Pow10(n - 1)

f64_lt(a, b) == a.m * Pow10(b.e) < b.m * Pow10(a.e)

\* str::to_lowercase
to_lowercase(s) == [i \in DOMAIN s |-> char_to_lowercase(s[i])]

RECURSIVE NatToString(_)
NatToString(n) ==
    IF n < 10 THEN <<DigitSeq[n + 1]>>
    ELSE NatToString(n \div 10) \o <<DigitSeq[(n % 10) + 1]>>

RECURSIVE PadZeros(_, _)
PadZeros(s, width) == IF Len(s) >= width THEN s ELSE PadZeros(<<"0">> \o s, width)

\* Display for serde_yaml::Number
number_to_string(n) ==
    LET a == IF n.m < 0 THEN 0 - n.m ELSE n.m
        sign == IF n.m < 0 THEN <<"-">> ELSE <<>>
    IN  IF ~n.float THEN sign \o NatToString(a)
        ELSE IF n.e = 0 THEN sign \o NatToString(a) \o <<".", "0">>
        ELSE sign \o NatToString(a \div Pow10(n.e)) \o <<".">>
                  \o PadZeros(NatToString(a % Pow10(n.e)), n.e)

bool_to_string(b) == IF b THEN KW_true ELSE KW_false

(***************************************************************************)
(* The evaluator (src/query/eval.rs)                                       *)
(***************************************************************************)
RECURSIVE first_match(_, _, _)

\* first_match comparing the key as written, not its lowercase form
RECURSIVE first_match_KeyAsWritten(_, _, _)
first_match_KeyAsWritten(entries, field_lower, i) ==
    IF i > Len(entries) THEN None
    ELSE LET key == entries[i][1] IN
         IF key.t = "String" /\ key.s = field_lower
         THEN Some(entries[i][2])
         ELSE first_match_KeyAsWritten(entries, field_lower, i + 1)

\* the for loop of get_field_case_insensitive, from entry i on
first_match(entries, field_lower, i) ==
    IF i > Len(entries) THEN None
    ELSE LET key == entries[i][1] IN
         IF key.t = "String" /\ to_lowercase(key.s) = field_lower
         THEN Some(entries[i][2])
         ELSE first_match(entries, field_lower, i + 1)

get_field_case_insensitive(fm, field) ==
    IF fm.t # "Mapping" THEN None
    ELSE first_match(fm.entries, to_lowercase(field), 1)

ends_with(s, suffix) ==
    /\ Len(s) >= Len(suffix)
    /\ SubSeq(s, Len(s) - Len(suffix) + 1, Len(s)) = suffix

\* strip_obsidian_link that strips nothing
strip_obsidian_link_Identity(s) == s

strip_obsidian_link(s) ==
    IF starts_with(s, <<"[", "[">>)
    THEN LET rest == SubSeq(s, 3, Len(s)) IN
         IF ends_with(rest, <<"]", "]">>) THEN SubSeq(rest, 1, Len(rest) - 2) ELSE s
    ELSE s

normalize_for_compare(s) == to_lowercase(strip_obsidian_link(s))

yaml_to_string(v) ==
    CASE v.t = "String" -> Some(v.s)
      [] v.t = "Number" -> Some(number_to_string(v))
      [] v.t = "Bool" -> Some(bool_to_string(v.b))
      [] OTHER -> None

yaml_to_number(v) ==
    IF v.t = "Number" THEN Some([m |-> v.m, e |-> v.e]) ELSE None

yaml_to_date(v) ==
    IF v.t # "String" THEN None
    ELSE LET parts == split(v.s, "-") IN
         IF Len(parts) # 3 THEN None
         ELSE LET year == parse_i32(parts[1])
                  month == parse_u8(parts[2])
                  day == parse_u8(parts[3])
              IN  IF ~year.some \/ ~month.some \/ ~day.some THEN None
                  ELSE Some(Date(year.v, month.v, day.v))

\* compare_ord, given the strict order lt of the type
compare_ord(eq, lt, gt, op) ==
    Some(CASE op = "Eq" -> eq
           [] op = "Ne" -> ~eq
           [] op = "Gt" -> gt
           [] op = "Lt" -> lt
           [] op = "Ge" -> gt \/ eq
           [] op = "Le" -> lt \/ eq)

compare_str(a, b, op) ==
    LET a_norm == normalize_for_compare(a)
        b_norm == normalize_for_compare(b)
    IN  compare_ord(a_norm = b_norm, str_lt(a_norm, b_norm), str_lt(b_norm, a_norm), op)

compare_date(a, b, op) == compare_ord(a = b, date_lt(a, b), date_lt(b, a), op)

\* |a - b| < f64::EPSILON: on the model's short decimals, a = b
compare_float(a, b, op) ==
    Some(CASE op = "Eq" -> a = b
           [] op = "Ne" -> a # b
           [] op = "Gt" -> f64_lt(b, a)
           [] op = "Lt" -> f64_lt(a, b)
           [] op = "Ge" -> ~f64_lt(a, b)
           [] op = "Le" -> ~f64_lt(b, a))

try_eval_compare(fm, field, op, value) ==
    LET fm_value == get_field_case_insensitive(fm, field) IN
    IF ~fm_value.some THEN None
    ELSE CASE value.kind = "String" ->
                LET fm_str == yaml_to_string(fm_value.v) IN
                IF ~fm_str.some THEN None ELSE compare_str(fm_str.v, value.s, op)
           [] value.kind = "Number" ->
                LET fm_num == yaml_to_number(fm_value.v) IN
                IF ~fm_num.some THEN None ELSE compare_float(fm_num.v, value.n, op)
           [] value.kind = "Bool" ->
                IF fm_value.v.t # "Bool" THEN None
                ELSE IF op = "Eq" THEN Some(fm_value.v.b = value.b)
                ELSE IF op = "Ne" THEN Some(fm_value.v.b # value.b)
                ELSE None
           [] value.kind = "Date" ->
                LET fm_date == yaml_to_date(fm_value.v) IN
                IF ~fm_date.some THEN None ELSE compare_date(fm_date.v, value.d, op)

unwrap_or(o, default) == IF o.some THEN o.v ELSE default

\* eval_compare with a failed lookup or coercion counted as a match
eval_compare_DefaultTrue(fm, field, op, value) ==
    unwrap_or(try_eval_compare(fm, field, op, value), TRUE)

eval_compare(fm, field, op, value) ==
    unwrap_or(try_eval_compare(fm, field, op, value), FALSE)

\* str::contains(needle): needle occurs as a contiguous substring
str_contains(hay, needle) ==
    \E i \in 0..(Len(hay) - Len(needle)) : SubSeq(hay, i + 1, i + Len(needle)) = needle

\* eval_contains with the substring test on the elements of a sequence too
eval_contains_SubstringOfElement(fm, field, value) ==
    LET fm_value == get_field_case_insensitive(fm, field) IN
    IF ~fm_value.some THEN FALSE
    ELSE IF value.kind # "String" THEN FALSE
    ELSE LET needle_normalized == normalize_for_compare(value.s)
             item_matches(item) ==
                 LET s == yaml_to_string(item) IN
                 IF s.some THEN str_contains(normalize_for_compare(s.v), needle_normalized) ELSE FALSE
         IN  IF fm_value.v.t = "Sequence"
             THEN \E i \in DOMAIN fm_value.v.items : item_matches(fm_value.v.items[i])
             ELSE LET s == yaml_to_string(fm_value.v) IN
                  IF s.some THEN str_contains(normalize_for_compare(s.v), needle_normalized)
                  ELSE FALSE

eval_contains(fm, field, value) ==
    LET fm_value == get_field_case_insensitive(fm, field) IN
    IF ~fm_value.some THEN FALSE
    ELSE IF value.kind # "String" THEN FALSE
    ELSE LET needle_normalized == normalize_for_compare(value.s)
             item_matches(item) ==
                 LET s == yaml_to_string(item) IN
                 IF s.some THEN normalize_for_compare(s.v) = needle_normalized ELSE FALSE
         IN  IF fm_value.v.t = "Sequence"
             THEN \E i \in DOMAIN fm_value.v.items : item_matches(fm_value.v.items[i])
             ELSE LET s == yaml_to_string(fm_value.v) IN
                  IF s.some THEN str_contains(normalize_for_compare(s.v), needle_normalized)
                  ELSE FALSE

RECURSIVE evaluate(_, _)
evaluate(e, fm) ==
    CASE e.type = "Compare" -> eval_compare(fm, e.field, e.op, e.value)
      [] e.type = "Contains" -> eval_contains(fm, e.field, e.value)
      [] e.type = "And" -> evaluate(e.left, fm) /\ evaluate(e.right, fm)
      [] e.type = "Or" -> evaluate(e.left, fm) \/ evaluate(e.right, fm)

(***************************************************************************)
(* Query strings of the model                                              *)
(***************************************************************************)
MaxQueryChars == 4

MaxTokens == 5

MaxValueChars == 4

RECURSIVE Flatten(_)
Flatten(ss) == IF ss = <<>> THEN <<>> ELSE Head(ss) \o Flatten(Tail(ss))

\* the pieces separated by one space
RECURSIVE Join(_)
Join(ss) ==
    IF ss = <<>> THEN <<>>
    ELSE IF Len(ss) = 1 THEN ss[1]
    ELSE Head(ss) \o <<" ">> \o Join(Tail(ss))

SeqsUpTo(S, n) == UNION {[1..k -> S] : k \in 0..n}

\* 1. every string of at most MaxQueryChars characters over these characters
QueryChars ==
    {<<"a">>, <<"=">>, <<"1">>, <<"\"">>, <<"(">>, <<")">>, <<" ">>, <<"-">>,
     <<E_ACUTE_LOWER, CONT>>, <<NBSP, CONT>>}

CharQueries == {Flatten(cs) : cs \in SeqsUpTo(QueryChars, MaxQueryChars)}

\* 2. at most MaxTokens tokens, separated by single spaces
PrimaryText ==
    <<  <<"x", "=", "1">>,
        <<"y", ">", "=", "\"", "s", "\"">>,
        <<"t", " ">> \o KW_contains \o <<" ", "\"", "u", "\"">>  >>

PrimaryExpr ==
    <<  Compare(<<"x">>, "Eq", NumberValue([m |-> 1, e |-> 0])),
        Compare(<<"y">>, "Ge", StringValue(<<"s">>)),
        Contains(<<"t">>, StringValue(<<"u">>))  >>

QueryTokens == Range(PrimaryText) \cup {KW_AND, KW_OR, <<"(">>, <<")">>}

TokenQueries == {Join(ts) : ts \in SeqsUpTo(QueryTokens, MaxTokens)}

\* 2b. three primaries, two connectives, one pair of parentheses
Grouped(ts) == <<"(">> \o Join(ts) \o <<")">>

ParenQueries ==
    UNION {{Join(<<Grouped(<<PrimaryText[a], j, PrimaryText[b]>>), k, PrimaryText[c]>>),
            Join(<<PrimaryText[a], j, Grouped(<<PrimaryText[b], k, PrimaryText[c]>>)>>)} :
              a \in DOMAIN PrimaryText, b \in DOMAIN PrimaryText, c \in DOMAIN PrimaryText,
              j \in {KW_AND, KW_OR}, k \in {KW_AND, KW_OR}}

\* 3. a keyword in every letter casing, followed by each of KeywordFollowers,
\*    at a position where the parser looks for it
Keywords == {KW_AND, KW_OR, KW_contains, KW_true, KW_false}

to_ascii_uppercase(c) == IF c \in AsciiLower THEN UpperSeq[IndexIn(LowerSeq, c)] ELSE c

Casings(kw) ==
    {[i \in DOMAIN kw |-> IF i \in U THEN to_ascii_uppercase(kw[i]) ELSE to_ascii_lowercase(kw[i])] :
        U \in SUBSET DOMAIN kw}

KeywordFollowers ==
    {<<>>, <<" ">>, <<"(">>, <<"-">>, <<"\"">>, <<"_">>, <<"1">>, <<"b">>,
     <<E_ACUTE_LOWER, CONT>>, <<EURO, CONT, CONT>>}

KeywordBefore(kw) ==
    IF kw \in {KW_AND, KW_OR} THEN <<"a", "=", "1", " ">>
    ELSE IF kw = KW_contains THEN <<"t", " ">>
    ELSE <<"a", " ", "=", " ">>

KeywordAfter(kw) ==
    IF kw \in {KW_AND, KW_OR} THEN {<<>>, <<" ", "b", "=", "2">>}
    ELSE IF kw = KW_contains THEN {<<>>, <<" ", "\"", "u", "\"">>}
    ELSE {<<>>}

KeywordQueries ==
    UNION {{KeywordBefore(kw) \o c \o f \o a :
                c \in Casings(kw), f \in KeywordFollowers, a \in KeywordAfter(kw)} : kw \in Keywords}

\* 4. field names that begin with a keyword's letters
KeywordLikeFields ==
    {<<"a","n","d","r","o","i","d">>, <<"o","r","d","e","r">>,
     KW_contains \o <<"_", "x">>, KW_true \o <<"1">>, KW_false \o <<"y">>,
     <<"A","N","D","y">>, <<"O","r","_">>, <<"o","r","-","x">>}

FieldQueries == {f \o <<" ", "=", " ", "1">> : f \in KeywordLikeFields}

\* 5. a comparison and a contains test of every text of at most MaxValueChars
\*    characters over ValueChars, and of some longer literals
ValueChars == {"-", ".", "1", "3", "a", " "}

LongValues ==
    {<<"2","0","2","4","-","0","1","-","0","1">>, <<"2","0","2","4","-","1","3","-","0","1">>,
     <<"2","0","2","4","-","1","-","3","2">>, <<"2","0","2","4","-","0","-","1">>,
     <<"2","0","2","4","-","2","5","6","-","1">>, <<"-","2","0","2","4","-","1","-","1">>,
     KW_true, KW_false, <<"T","R","U","E">>,
     <<"\"", "x", "\"">>, <<"\"", "\"">>, <<"\"", "1", "\"">>, <<"\"", "[", "[", "x", "]", "]", "\"">>,
     <<"\"", "x">>, <<"\"", E_ACUTE_LOWER, CONT, "\"">>}

ValueTexts == SeqsUpTo(ValueChars, MaxValueChars) \cup LongValues

ComparePrefix == <<"a", "=">>

ContainsPrefix == <<"t", " ">> \o KW_contains \o <<" ">>

ValueQueries == {pre \o v : pre \in {ComparePrefix, ContainsPrefix}, v \in ValueTexts}

Queries == CharQueries \cup TokenQueries \cup ParenQueries \cup KeywordQueries \cup FieldQueries \cup ValueQueries

NoOutcome == [tag |-> "None"]

\* no query run in progress
NoRun ==
    /\ frontmatters = <<>>
    /\ cursor = 0
    /\ found = FALSE
    /\ stdout = <<>>
    /\ stderr = <<>>
    /\ exit_code = None
    /\ evaluated = <<>>

\* no parse being followed
NoSteps ==
    /\ call_stack = <<>>
    /\ self_pos = 0
    /\ returned = NoOutcome
    /\ step_count = 0

Init ==
    /\ NoRun
    /\ NoSteps
    /\ input \in Queries
    /\ outcome = NoOutcome
    /\ expr = NoOutcome
    /\ frontmatter = NoOutcome
    /\ verdict = "none"
    /\ pc = "start"

\* run_query_mode, first statement: query::parse(query_str)
Parse ==
    /\ pc = "start"
    /\ outcome' = parse(input)
    /\ expr' = IF outcome'.tag = "Ok" THEN outcome'.val ELSE expr
    /\ pc' = IF outcome'.tag = "Ok" THEN "parsed"
             ELSE IF outcome'.tag = "Err" THEN "failed" ELSE "panicked"
    /\ UNCHANGED <<input, frontmatter, verdict, run_vars, step_vars>>

Next == Parse

Spec == Init /\ [][Next]_vars

(***************************************************************************)
(* Expressions and documents of the model, for the evaluator               *)
(***************************************************************************)
MaxEntries == 2

MaxItems == 2

MaxLinkChars == 4

\* sequences without repetition of the first component: a mapping's keys
\* are pairwise distinct
DistinctKeys(es) == \A i, j \in DOMAIN es : i # j => es[i][1] # es[j][1]

Mappings(keys, values, n) ==
    {YMapping(es) : es \in {x \in SeqsUpTo(keys \X values, n) : DistinctKeys(x)}}

S_st == <<"s", "t">>

S_ok == <<"o", "k">>

Wrapped(s) == <<"[", "[">> \o s \o <<"]", "]">>

\* 1. case: a string comparison against mappings of at most MaxEntries entries
CaseFields == {S_st, <<"S", "t">>, <<"S", "T">>, <<E_ACUTE_LOWER, CONT>>}

CaseNeedles == {S_ok, <<"O", "k">>, Wrapped(<<"O", "K">>)}

CaseKeys ==
    {YString(S_st), YString(<<"S", "T">>), YString(<<"z", "z">>),
     YString(<<E_ACUTE_UPPER, CONT>>), YInt(1)}

CaseValues == {YString(S_ok), YString(<<"O", "K">>), YString(<<"n", "o">>), YInt(7)}

CaseDocs == Mappings(CaseKeys, CaseValues, MaxEntries)

CaseInputs ==
    {<<Compare(f, "Eq", StringValue(v)), d>> : f \in CaseFields, v \in CaseNeedles, d \in CaseDocs}

\* 2. every operator and literal kind, nested, against documents that are
\*    not mappings, mappings without the fields, and mappings with them
SampleDate == Date(2024, 1, 1)

SampleLiterals ==
    {StringValue(S_ok), NumberValue([m |-> 7, e |-> 0]), BoolValue(TRUE), DateValue(SampleDate)}

Leaves ==
    {Compare(f, op, v) : f \in {S_st, <<"q">>}, op \in CompareOp, v \in SampleLiterals}
    \cup {Contains(f, v) : f \in {S_st, <<"q">>}, v \in SampleLiterals}

NestLeaves ==
    {Compare(S_st, "Eq", StringValue(S_ok)), Compare(<<"q">>, "Ne", BoolValue(TRUE)),
     Contains(S_st, StringValue(<<"k">>)), Compare(S_st, "Gt", NumberValue([m |-> 7, e |-> 0]))}

Nested1 == {And(a, b) : a \in NestLeaves, b \in NestLeaves} \cup {Or(a, b) : a \in NestLeaves, b \in NestLeaves}

Nested2 ==
    {And(a, b) : a \in Nested1, b \in NestLeaves} \cup {Or(a, b) : a \in NestLeaves, b \in Nested1}

TotalExprs == Leaves \cup Nested1 \cup Nested2

TotalDocs ==
    {YNull, YBool(TRUE), YInt(7), YString(S_st), YSequence(<<YString(S_st), YString(S_ok)>>),
     YMapping(<<>>),
     YMapping(<< <<YString(<<"z", "z">>), YString(S_ok)>> >>),
     YMapping(<< <<YInt(7), YString(S_ok)>>, <<YNull, YBool(TRUE)>> >>),
     YMapping(<< <<YString(<<"S", "T">>), YString(<<"O", "K">>)>> >>),
     YMapping(<< <<YString(S_st), YInt(7)>>, <<YString(<<"Q">>), YBool(FALSE)>> >>),
     YMapping(<< <<YString(S_st), YFloat(75, 1)>>, <<YString(<<"q">>), YBool(TRUE)>> >>),
     YMapping(<< <<YString(S_st), YString(<<"2","0","2","4","-","0","1","-","0","1">>)>> >>),
     YMapping(<< <<YString(S_st), YNull>>, <<YString(<<"q">>), YSequence(<<YBool(TRUE)>>)>> >>)}

TotalInputs == TotalExprs \X TotalDocs

\* 3. contains, against sequences of at most MaxItems items and scalars
S_ab == <<"a", "b">>

ContainsNeedles ==
    {S_ab, <<"A", "B">>, <<"b">>, Wrapped(S_ab), <<>>, <<"7">>, <<"r", "u">>, <<"a", "b", "c">>}

ContainsItems ==
    {YString(S_ab), YString(<<"A", "b">>), YString(Wrapped(<<"A", "B">>)),
     YString(<<"x", "a", "b", "y">>), YString(<<"a", "b", "c">>),
     YInt(7), YInt(17), YFloat(75, 1), YBool(TRUE), YNull,
     YSequence(<<YString(S_ab)>>), YMapping(<< <<YString(S_ab), YString(S_ab)>> >>)}

ContainsFieldValues ==
    ContainsItems \cup {YSequence(items) : items \in SeqsUpTo(ContainsItems, MaxItems)}

ContainsInputs ==
    {<<Contains(S_st, StringValue(n)), YMapping(<< <<YString(<<"S", "t">>), v>> >>)>> :
        n \in ContainsNeedles, v \in ContainsFieldValues}

\* 4. links: every text S of at most MaxLinkChars characters over LinkChars,
\*    as the query value against the field "[[S]]" and the other way round
LinkChars == {"[", "]", "n", "N"}

LinkTexts == SeqsUpTo(LinkChars, MaxLinkChars)

LinkInputs ==
    {<<Compare(S_st, "Eq", StringValue(s)), YMapping(<< <<YString(S_st), YString(Wrapped(s))>> >>)>> :
        s \in LinkTexts}
    \cup
    {<<Compare(S_st, "Eq", StringValue(Wrapped(s))), YMapping(<< <<YString(S_st), YString(s)>> >>)>> :
        s \in LinkTexts}

\* 5. dates: every operator, against fields made of '-'-separated parts
DateLiterals == {Date(2024, 1, 1), Date(2024, 6, 15), Date(2023, 12, 31), Date(2024, 12, 1)}

YearParts == {<<"2","0","2","4">>, <<"2","0","2","3">>, <<"+","2","0","2","4">>, <<"y">>, <<>>}

MonthDayParts ==
    {<<"1">>, <<"0","1">>, <<"0","6">>, <<"1","2">>, <<"1","5">>, <<"3","1">>, <<"0">>, <<"9","9">>,
     <<"2","5","5">>, <<"2","5","6">>, <<"+","6">>, <<"1",".","0">>, <<" ","1">>, <<>>}

JoinDash(ps) == IF Len(ps) = 1 THEN ps[1] ELSE IF Len(ps) = 2 THEN ps[1] \o <<"-">> \o ps[2]
                ELSE ps[1] \o <<"-">> \o ps[2] \o <<"-">> \o ps[3]

DateFieldValues ==
    {YString(JoinDash(<<y, m, d>>)) : y \in YearParts, m \in MonthDayParts, d \in MonthDayParts}
    \cup {YString(JoinDash(<<y, m>>)) : y \in YearParts, m \in MonthDayParts}
    \cup {YString(<<"2","0","2","4","-","1","-","1","-","1">>), YString(<<"-","2","0","2","4","-","1","-","1">>),
          YInt(2024), YNull, YSequence(<<YString(<<"2","0","2","4","-","0","6","-","1","5">>)>>)}

DateInputs ==
    {<<Compare(S_st, op, DateValue(d)), YMapping(<< <<YString(S_st), v>> >>)>> :
        op \in CompareOp, d \in DateLiterals, v \in DateFieldValues}

EvalInputs == CaseInputs \cup TotalInputs \cup ContainsInputs \cup LinkInputs \cup DateInputs

InitEval ==
    /\ NoRun
    /\ NoSteps
    /\ \E x \in EvalInputs : expr = x[1] /\ frontmatter = x[2]
    /\ input = <<>>
    /\ outcome = NoOutcome
    /\ verdict = "none"
    /\ pc = "parsed"

\* run_query_mode, the loop body: query::evaluate(&expr, fm)
Evaluate ==
    /\ pc = "parsed"
    /\ verdict' = evaluate(expr, frontmatter)
    /\ pc' = "evaluated"
    /\ UNCHANGED <<input, outcome, expr, frontmatter, run_vars, step_vars>>

NextEval == Evaluate

SpecEval == InitEval /\ [][NextEval]_vars

(***************************************************************************)
(* A query run (src/main.rs, run_query_mode): parse the query, then        *)
(* evaluate it on each document in turn.  A path is the sequence of its    *)
(* components.                                                             *)
(***************************************************************************)
MaxDocs == 3

VaultPath == <<"vault">>

\* Path::strip_prefix(base)
strip_prefix(path, base) ==
    IF Len(path) >= Len(base) /\ SubSeq(path, 1, Len(base)) = base
    THEN Some(SubSeq(path, Len(base) + 1, Len(path)))
    ELSE None

\* the path as printed: relative to the vault when it lies inside it
display_path(path, vault_path) == unwrap_or(strip_prefix(path, vault_path), path)

\* found counted as "no match" and the other way round
exit_code_of_Swapped(was_found) == IF was_found THEN Some(1) ELSE Some(0)

\* the ExitCode returned after the loop
exit_code_of(was_found) == IF was_found THEN Some(0) ELSE Some(1)

Quoted(s) == <<"\"">> \o s \o <<"\"">>

\* queries of a run: four that parse, three that fail, one that panics
RunQueries ==
    {   <<"s", " ", "=", " ">> \o Quoted(S_ok),
        <<"s", " ", "!", "=", " ">> \o Quoted(S_ok),
        <<"s", "=">> \o Quoted(S_ok) \o <<" ">> \o KW_OR \o <<" ", "n", ">", "1">>,
        <<"t", " ">> \o KW_contains \o <<" ">> \o Quoted(<<"u">>),
        <<"s", " ", "=">>,
        <<"s", "=">> \o Quoted(S_ok) \o <<" ", "x">>,
        <<>>,
        <<E_ACUTE_LOWER, CONT, " ", "=", " ", "1">>  }

Doc(path, entries) == <<path, YMapping(entries)>>

\* documents of a run: inside and outside the vault, matching and not
RunDocs ==
    {   Doc(<<"vault", "a.md">>, << <<YString(<<"s">>), YString(S_ok)>> >>),
        Doc(<<"vault", "b.md">>, << <<YString(<<"s">>), YString(<<"n", "o">>)>> >>),
        Doc(<<"vault", "sub", "c.md">>,
            << <<YString(<<"S">>), YString(<<"O", "K">>)>>, <<YString(<<"n">>), YInt(2)>> >>),
        Doc(<<"other", "d.md">>, << <<YString(<<"n">>), YInt(2)>> >>),
        <<<<"vault", "e.md">>, YNull>>  }

InitRun ==
    /\ input \in RunQueries
    /\ frontmatters \in SeqsUpTo(RunDocs, MaxDocs)
    /\ outcome = NoOutcome
    /\ expr = NoOutcome
    /\ frontmatter = NoOutcome
    /\ verdict = "none"
    /\ pc = "start"
    /\ cursor = 0
    /\ found = FALSE
    /\ stdout = <<>>
    /\ stderr = <<>>
    /\ exit_code = None
    /\ evaluated = <<>>
    /\ NoSteps

\* run_query_mode up to the loop: parse the query; on an error report it
\* and return ExitCode 2; a panic aborts the process
RunParse ==
    /\ pc = "start"
    /\ outcome' = parse(input)
    /\ CASE outcome'.tag = "Ok" ->
              /\ expr' = outcome'.val
              /\ found' = FALSE
              /\ cursor' = 1
              /\ pc' = "loop"
              /\ UNCHANGED <<stderr, exit_code>>
         [] outcome'.tag = "Err" ->
              /\ stderr' = Append(stderr, [line |-> "Query error", error |-> outcome'])
              /\ exit_code' = Some(2)
              /\ pc' = "exit"
              /\ UNCHANGED <<expr, found, cursor>>
         [] outcome'.tag = "Panic" ->
              /\ stderr' = Append(stderr, [line |-> "panicked"])
              /\ pc' = "aborted"
              /\ UNCHANGED <<expr, found, cursor, exit_code>>
    /\ UNCHANGED <<input, frontmatter, verdict, frontmatters, stdout, evaluated, step_vars>>

\* one iteration of the for loop over the documents
RunEvaluate ==
    /\ pc = "loop"
    /\ cursor <= Len(frontmatters)
    /\ frontmatter' = frontmatters[cursor][2]
    /\ verdict' = evaluate(expr, frontmatter')
    /\ evaluated' = Append(evaluated, cursor)
    /\ found' = (found \/ verdict')
    /\ stdout' = IF verdict'
                 THEN Append(stdout, display_path(frontmatters[cursor][1], VaultPath))
                 ELSE stdout
    /\ cursor' = cursor + 1
    /\ UNCHANGED <<input, outcome, expr, pc, frontmatters, stderr, exit_code, step_vars>>

\* the end of the loop: return the ExitCode
RunReturn ==
    /\ pc = "loop"
    /\ cursor > Len(frontmatters)
    /\ exit_code' = exit_code_of(found)
    /\ pc' = "exit"
    /\ UNCHANGED <<input, outcome, expr, frontmatter, verdict,
                   frontmatters, cursor, found, stdout, stderr, evaluated, step_vars>>

NextRun == RunParse \/ RunEvaluate \/ RunReturn

SpecRun == InitRun /\ [][NextRun]_vars

(***************************************************************************)
(* A parse followed call by call (src/query/parser.rs, lines 27-88).  The  *)
(* calls of parse, parse_or, parse_and and parse_primary are frames on     *)
(* call_stack; a frame holds the method, the place in it where it          *)
(* continues, the left operand built so far, the position on entry, and    *)
(* the position where its last OR, AND or '(' began (mark).  The methods   *)
(* that do not recurse are taken in one step.                              *)
(***************************************************************************)
MaxStepTokens == 4

MaxDepth == 4

Frame(method, at, entry) ==
    [method |-> method, at |-> at, left |-> NoOutcome, entry |-> entry, mark |-> entry]

Top == call_stack[Len(call_stack)]

\* the stack with its top frame replaced
WithTop(frame) == [call_stack EXCEPT ![Len(call_stack)] = frame]

\* the stack without its top frame
Popped == SubSeq(call_stack, 1, Len(call_stack) - 1)

OnTop(method, at) ==
    /\ pc = "running"
    /\ call_stack # <<>>
    /\ Top.method = method
    /\ Top.at = at

\* what every step leaves alone, and its count
Step ==
    /\ step_count' = step_count + 1
    /\ UNCHANGED <<input, expr, frontmatter, verdict, run_vars>>

\* the parse goes on with this stack, position and returned value
Continue(new_stack, new_pos, value) ==
    /\ call_stack' = new_stack
    /\ self_pos' = new_pos
    /\ returned' = value
    /\ UNCHANGED <<outcome, pc>>

\* the parse ends with this result: every active call returns it
Finish(result) ==
    /\ outcome' = result
    /\ pc' = "done"
    /\ call_stack' = <<>>
    /\ returned' = NoOutcome
    /\ self_pos' = IF result.tag = "Panic" THEN self_pos ELSE result.pos

\* the top call returns this value to its caller
Return(value, new_pos) == Continue(Popped, new_pos, value)

\* the top call calls this method and continues, on its return, at `at`
Call(method, at, mark, new_pos) ==
    Continue(Append(WithTop([Top EXCEPT !.at = at, !.mark = mark]),
                    Frame(method, "entry", new_pos)),
             new_pos, NoOutcome)

\* sequencing inside a step: a call that did not return Ok ends the parse
OrFinish(r, rest(_)) == IF r.tag # "Ok" THEN Finish(r) ELSE rest(r)

StepTokens ==
    {<<"x", "=", "1">>, KW_AND, KW_OR, <<"(">>, <<")">>, <<"y", ">", E_ACUTE_LOWER, CONT>>}

\* n times the character c
RECURSIVE Repeat(_, _)
Repeat(c, n) == IF n = 0 THEN <<>> ELSE <<c>> \o Repeat(c, n - 1)

\* a comparison inside n opening and m closing parentheses, unspaced
DeepQueries ==
    {Repeat("(", n) \o <<"a", "<", "2">> \o Repeat(")", m) : n, m \in 0..MaxDepth}

\* chains without spaces around the parentheses
TightQueries ==
    {<<"(">> \o PrimaryText[1] \o <<")">> \o kw \o <<"(">> \o PrimaryText[2] \o <<")">> \o tail :
        kw \in {KW_AND, KW_OR, <<"o", "r", " ">>, <<"A", "N", "D", "_">>},
        tail \in {<<>>, <<" ", NBSP, CONT>>, <<" ">> \o KW_OR, <<" ">> \o KW_OR \o <<" ", "(">>}}

\* a chain of n comparisons joined by AND and OR
RECURSIVE Chains(_)
Chains(n) ==
    IF n = 0 THEN {PrimaryText[1]}
    ELSE {c \o <<" ">> \o kw \o <<" ">> \o p :
            c \in Chains(n - 1), kw \in {KW_AND, KW_OR}, p \in {PrimaryText[2], PrimaryText[3]}}

ChainQueries == UNION {Chains(n) : n \in 0..MaxStepTokens}

StepQueries ==
    {Join(ts) : ts \in SeqsUpTo(StepTokens, MaxStepTokens)}
    \cup DeepQueries \cup TightQueries \cup ChainQueries \cup ParenQueries

InitSteps ==
    /\ input \in StepQueries
    /\ outcome = NoOutcome
    /\ expr = NoOutcome
    /\ frontmatter = NoOutcome
    /\ verdict = "none"
    /\ pc = "start"
    /\ NoRun
    /\ NoSteps

\* Parser::new(input).parse(): the call of parse_or
ParseStart ==
    /\ pc = "start"
    /\ pc' = "running"
    /\ call_stack' = <<Frame("parse", "expr", 0), Frame("parse_or", "entry", 0)>>
    /\ self_pos' = 0
    /\ UNCHANGED <<outcome, returned>>
    /\ Step

\* parse after parse_or returned: nothing but white space may follow
ParseFinish ==
    /\ OnTop("parse", "expr")
    /\ OrFinish(skip_whitespace(input, self_pos), LAMBDA w :
           IF w.pos < Len(input)
           THEN Finish(error("Unexpected input after expression", w.pos))
           ELSE Finish(Ok(returned, w.pos)))
    /\ Step

\* parse_or: the call of parse_and for the left operand
ParseOrEntry ==
    /\ OnTop("parse_or", "entry")
    /\ Call("parse_and", "left", self_pos, self_pos)
    /\ Step

\* parse_or: the left operand is there, the loop begins
ParseOrLeft ==
    /\ OnTop("parse_or", "left")
    /\ Continue(WithTop([Top EXCEPT !.left = returned, !.at = "loop"]), self_pos, NoOutcome)
    /\ Step

\* parse_or, one pass of the loop up to the call of parse_and or the break
ParseOrLoop ==
    /\ OnTop("parse_or", "loop")
    /\ OrFinish(skip_whitespace(input, self_pos), LAMBDA w :
       OrFinish(match_keyword(input, w.pos, KW_OR), LAMBDA k :
           IF k.val THEN Call("parse_and", "right", w.pos, k.pos)
           ELSE Return(Top.left, k.pos)))
    /\ Step

\* parse_or: the right operand is there, the loop repeats
ParseOrRight ==
    /\ OnTop("parse_or", "right")
    /\ Continue(WithTop([Top EXCEPT !.left = Or(Top.left, returned), !.at = "loop"]),
                self_pos, NoOutcome)
    /\ Step

\* parse_and: the call of parse_primary for the left operand
ParseAndEntry ==
    /\ OnTop("parse_and", "entry")
    /\ Call("parse_primary", "left", self_pos, self_pos)
    /\ Step

\* parse_and: the left operand is there, the loop begins
ParseAndLeft ==
    /\ OnTop("parse_and", "left")
    /\ Continue(WithTop([Top EXCEPT !.left = returned, !.at = "loop"]), self_pos, NoOutcome)
    /\ Step

\* parse_and, one pass of the loop up to the call of parse_primary or the break
ParseAndLoop ==
    /\ OnTop("parse_and", "loop")
    /\ OrFinish(skip_whitespace(input, self_pos), LAMBDA w :
       OrFinish(match_keyword(input, w.pos, KW_AND), LAMBDA k :
           IF k.val THEN Call("parse_primary", "right", w.pos, k.pos)
           ELSE Return(Top.left, k.pos)))
    /\ Step

\* parse_and: the right operand is there, the loop repeats
ParseAndRight ==
    /\ OnTop("parse_and", "right")
    /\ Continue(WithTop([Top EXCEPT !.left = And(Top.left, returned), !.at = "loop"]),
                self_pos, NoOutcome)
    /\ Step

\* parse_primary: after '(' the call of parse_or, else a comparison or a
\* contains test
ParsePrimaryEntry ==
    /\ OnTop("parse_primary", "entry")
    /\ OrFinish(skip_whitespace(input, self_pos), LAMBDA w :
       OrFinish(match_char(input, w.pos, "("), LAMBDA open :
           IF open.val THEN Call("parse_or", "close", w.pos, open.pos)
           ELSE OrFinish(parse_comparison(input, w.pos), LAMBDA c : Return(c.val, c.pos))))
    /\ Step

\* parse_primary: the parenthesised expression is there, ')' must follow
ParsePrimaryClose ==
    /\ OnTop("parse_primary", "close")
    /\ OrFinish(skip_whitespace(input, self_pos), LAMBDA w :
       OrFinish(match_char(input, w.pos, ")"), LAMBDA close :
           IF ~close.val THEN Finish(error("Expected ')'", close.pos))
           ELSE Return(returned, close.pos)))
    /\ Step

NextSteps ==
    \/ ParseStart
    \/ ParseFinish
    \/ ParseOrEntry
    \/ ParseOrLeft
    \/ ParseOrLoop
    \/ ParseOrRight
    \/ ParseAndEntry
    \/ ParseAndLeft
    \/ ParseAndLoop
    \/ ParseAndRight
    \/ ParsePrimaryEntry
    \/ ParsePrimaryClose

SpecSteps == InitSteps /\ [][NextSteps]_vars

(***************************************************************************)
(* Properties of the parser, checked under Spec                            *)
(***************************************************************************)
ErrorMessages ==
    {"Unexpected input after expression", "Expected ')'", "Expected identifier",
     "Expected operator (=, !=, >, <, >=, <=)", "Unterminated string",
     "Expected number or date", "Invalid number"}

\* C1: for every query string, parse returns either an expression, having
\* consumed the whole input, or a ParseError with a message and a byte
\* offset; it never panics.
C1_ParseReturnsExprOrError ==
    pc # "start" =>
        \/ outcome.tag = "Ok" /\ outcome.pos = Len(input)
        \/ /\ outcome.tag = "Err"
           /\ outcome.message \in ErrorMessages
           /\ outcome.pos \in 0..Len(input)

RECURSIVE HasOr(_)
HasOr(e) ==
    CASE e.type = "Or" -> TRUE
      [] e.type = "And" -> HasOr(e.left) \/ HasOr(e.right)
      [] OTHER -> FALSE

RECURSIVE OrBeneathAnd(_)
OrBeneathAnd(e) ==
    CASE e.type = "And" -> HasOr(e.left) \/ HasOr(e.right)
      [] e.type = "Or" -> OrBeneathAnd(e.left) \/ OrBeneathAnd(e.right)
      [] OTHER -> FALSE

P(i) == PrimaryText[i]

E(i) == PrimaryExpr[i]

\* C2: AND binds tighter than OR and both associate to the left: for all
\* primaries a, b, c, `a OR b AND c` is Or(a, And(b, c)), `a AND b OR c` is
\* Or(And(a, b), c), `a AND b AND c` is And(And(a, b), c) and `a OR b OR c`
\* is Or(Or(a, b), c); a query without parentheses never yields an Or
\* beneath an And.
C2_Precedence ==
    pc # "start" =>
        /\ \A a, b, c \in DOMAIN PrimaryText :
            /\ input = Join(<<P(a), KW_OR, P(b), KW_AND, P(c)>>)
                  => outcome = Ok(Or(E(a), And(E(b), E(c))), Len(input))
            /\ input = Join(<<P(a), KW_AND, P(b), KW_OR, P(c)>>)
                  => outcome = Ok(Or(And(E(a), E(b)), E(c)), Len(input))
            /\ input = Join(<<P(a), KW_AND, P(b), KW_AND, P(c)>>)
                  => outcome = Ok(And(And(E(a), E(b)), E(c)), Len(input))
            /\ input = Join(<<P(a), KW_OR, P(b), KW_OR, P(c)>>)
                  => outcome = Ok(Or(Or(E(a), E(b)), E(c)), Len(input))
            /\ input = Join(<<Grouped(<<P(a), KW_OR, P(b)>>), KW_AND, P(c)>>)
                  => outcome = Ok(And(Or(E(a), E(b)), E(c)), Len(input))
            /\ input = Join(<<P(a), KW_AND, Grouped(<<P(b), KW_OR, P(c)>>)>>)
                  => outcome = Ok(And(E(a), Or(E(b), E(c))), Len(input))
        /\ (outcome.tag = "Ok" /\ "(" \notin Range(input)) => ~OrBeneathAnd(outcome.val)

C2_Witness ==
    /\ pc = "parsed"
    /\ input = Join(<<P(1), KW_OR, P(2), KW_AND, P(3)>>)
    /\ expr = Or(E(1), And(E(2), E(3)))

\* The outcome of a keyword query when the keyword is not matched where the
\* parser looks for it.
NotRecognised(kw) ==
    IF kw \in {KW_AND, KW_OR} THEN ParseError("Unexpected input after expression", 4)
    ELSE IF kw = KW_contains THEN ParseError("Expected operator (=, !=, >, <, >=, <=)", 2)
    ELSE ParseError("Expected number or date", 4)

IsCasingOf(w, kw) ==
    /\ Len(w) = Len(kw)
    /\ \A i \in DOMAIN kw : w[i] \in {to_ascii_lowercase(kw[i]), to_ascii_uppercase(kw[i])}

KeywordAt(kw, q) == SubSeq(q, Len(KeywordBefore(kw)) + 1, Len(KeywordBefore(kw)) + Len(kw))

FollowerAt(kw, q) == SubSeq(q, Len(KeywordBefore(kw)) + Len(kw) + 1, Len(q))

IsKeywordQuery(kw, q) ==
    /\ Len(q) >= Len(KeywordBefore(kw)) + Len(kw)
    /\ starts_with(q, KeywordBefore(kw))
    /\ IsCasingOf(KeywordAt(kw, q), kw)

\* what follows a keyword in a well-formed query, and the expression it makes
KeywordRest(kw) ==
    IF kw \in {KW_AND, KW_OR} THEN <<" ", "b", "=", "2">>
    ELSE IF kw = KW_contains THEN <<" ", "\"", "u", "\"">>
    ELSE <<>>

One == NumberValue([m |-> 1, e |-> 0])

Two == NumberValue([m |-> 2, e |-> 0])

KeywordExpr(kw) ==
    CASE kw = KW_AND -> And(Compare(<<"a">>, "Eq", One), Compare(<<"b">>, "Eq", Two))
      [] kw = KW_OR -> Or(Compare(<<"a">>, "Eq", One), Compare(<<"b">>, "Eq", Two))
      [] kw = KW_contains -> Contains(<<"t">>, StringValue(<<"u">>))
      [] kw = KW_true -> Compare(<<"a">>, "Eq", BoolValue(TRUE))
      [] kw = KW_false -> Compare(<<"a">>, "Eq", BoolValue(FALSE))

WordBoundary(follower) ==
    follower = <<>> \/ (~is_alphanumeric(follower[1]) /\ follower[1] # "_")

\* C6: a keyword is recognised in every letter casing, and only where the
\* character after it is absent or neither alphanumeric nor '_'; a field
\* name that begins with a keyword's letters is parsed whole as an
\* identifier.
C6_KeywordBoundary ==
    pc # "start" =>
        /\ \A kw \in Keywords :
              IsKeywordQuery(kw, input) =>
                  IF WordBoundary(FollowerAt(kw, input))
                  THEN outcome # NotRecognised(kw)
                  ELSE outcome \in {NotRecognised(kw), Panic}
        /\ \A kw \in Keywords :
              (IsKeywordQuery(kw, input) /\ FollowerAt(kw, input) = KeywordRest(kw))
                  => outcome = Ok(KeywordExpr(kw), Len(input))
        /\ \A kw \in Keywords : \A p \in 0..Len(input) :
              is_char_boundary(input, p) =>
                  LET r == match_keyword(input, p, kw)
                      rest == Slice(input, p, Len(input))
                  IN  (r.tag = "Ok" /\ r.val) <=>
                          /\ Len(rest) >= Len(kw)
                          /\ IsCasingOf(SubSeq(rest, 1, Len(kw)), kw)
                          /\ WordBoundary(SubSeq(rest, Len(kw) + 1, Len(rest)))
        /\ \A f \in KeywordLikeFields :
              input = f \o <<" ", "=", " ", "1">>
                  => outcome = Ok(Compare(f, "Eq", NumberValue([m |-> 1, e |-> 0])), Len(input))

C6_Witness ==
    /\ pc = "parsed"
    /\ input = <<"a","n","d","r","o","i","d", " ", "=", " ", "1">>
    /\ expr.field = <<"a","n","d","r","o","i","d">>

IsMinusWithoutDigit(v) == v # <<>> /\ v[1] = "-" /\ (Len(v) = 1 \/ ~is_ascii_digit(v[2]))

\* C7: a value that starts with '-' not followed by a digit is the parse
\* error "Expected number or date", never a Number or a Date.
C7_MinusNeedsDigit ==
    pc # "start" =>
        \A v \in ValueTexts :
            (input = ComparePrefix \o v /\ IsMinusWithoutDigit(v))
                => outcome.tag = "Err" /\ outcome.message = "Expected number or date"

\* C7, its last clause alone: such a value is never a Number or a Date.
C7_MinusWithoutDigitNeverNumber ==
    pc # "start" =>
        \A v \in ValueTexts :
            (input = ComparePrefix \o v /\ IsMinusWithoutDigit(v)) => outcome.tag # "Ok"

RECURSIVE ContainsValuesAreStrings(_)
ContainsValuesAreStrings(e) ==
    CASE e.type = "Contains" -> e.value.kind = "String"
      [] e.type = "Compare" -> TRUE
      [] OTHER -> ContainsValuesAreStrings(e.left) /\ ContainsValuesAreStrings(e.right)

\* C10 as claimed: every Contains that parse returns carries a String.
C10_ContainsValueIsString ==
    pc = "parsed" => ContainsValuesAreStrings(expr)

\* C10 amended: the value of a Contains is whatever literal follows the
\* keyword, read as the value of a comparison is read: a String, a Number,
\* a Bool or a Date.
C10_ContainsValueIsAnyLiteral ==
    pc # "start" =>
        \A v \in ValueTexts :
            input = ContainsPrefix \o v =>
                LET cmp == parse(ComparePrefix \o v) IN
                IF cmp.tag = "Ok"
                THEN /\ outcome.tag = "Ok"
                     /\ outcome.val = Contains(<<"t">>, cmp.val.value)
                     /\ outcome.val.value.kind \in {"String", "Number", "Bool", "Date"}
                ELSE outcome.tag = cmp.tag

C10_Witness ==
    /\ pc = "parsed"
    /\ input = ContainsPrefix \o <<"1">>
    /\ expr = Contains(<<"t">>, NumberValue([m |-> 1, e |-> 0]))

(***************************************************************************)
(* Properties of the evaluator, checked under SpecEval                     *)
(***************************************************************************)
\* Equality ignoring case, letter by letter, from the table of case pairs.
CasePairs ==
    {<<LowerSeq[i], UpperSeq[i]>> : i \in DOMAIN LowerSeq} \cup {<<E_ACUTE_LOWER, E_ACUTE_UPPER>>}

SameLetter(c, d) == c = d \/ <<c, d>> \in CasePairs \/ <<d, c>> \in CasePairs

SameIgnoringCase(a, b) ==
    /\ Len(a) = Len(b)
    /\ \A i \in DOMAIN a : SameLetter(a[i], b[i])

IsStringEq(e) == e.type = "Compare" /\ e.op = "Eq" /\ e.value.kind = "String"

\* entry i of a mapping has a string key that is a re-casing of field
KeyMatches(fm, i, field) ==
    /\ fm.entries[i][1].t = "String"
    /\ SameIgnoringCase(fm.entries[i][1].s, field)

\* entry i holds a string that equals v ignoring case
ValueMatches(fm, i, v) ==
    /\ fm.entries[i][2].t = "String"
    /\ SameIgnoringCase(fm.entries[i][2].s, v)

\* C3 as claimed: Compare{F, Eq, String(V)} is true against any mapping that
\* has a key F', a re-casing of F, with a string value V' equal to V ignoring
\* case, whatever other keys the mapping holds and in whatever order.
C3_AnyMatchingEntry ==
    (pc = "evaluated" /\ IsStringEq(expr) /\ frontmatter.t = "Mapping") =>
        \A i \in DOMAIN frontmatter.entries :
            (KeyMatches(frontmatter, i, expr.field) /\ ValueMatches(frontmatter, i, expr.value.s))
                => verdict = TRUE

\* C3 amended: Compare{F, Eq, String(V)} is true against any mapping whose
\* first key that equals F ignoring case holds a string equal to V ignoring
\* case.
C3_FirstMatchingEntry ==
    (pc = "evaluated" /\ IsStringEq(expr) /\ frontmatter.t = "Mapping") =>
        \A i \in DOMAIN frontmatter.entries :
            (/\ KeyMatches(frontmatter, i, expr.field)
             /\ \A j \in 1..(i - 1) : ~KeyMatches(frontmatter, j, expr.field)
             /\ ValueMatches(frontmatter, i, expr.value.s))
                => verdict = TRUE

\* the key is a re-casing, the value is in another casing, another key first
C3_Witness ==
    /\ pc = "evaluated"
    /\ expr = Compare(<<"S", "t">>, "Eq", StringValue(<<"O", "k">>))
    /\ frontmatter = YMapping(<< <<YString(<<"z", "z">>), YString(<<"n", "o">>)>>,
                                 <<YString(<<"S", "T">>), YString(<<"O", "K">>)>> >>)
    /\ verdict = TRUE

RECURSIVE FieldsOf(_)
FieldsOf(e) ==
    IF e.type \in {"And", "Or"} THEN FieldsOf(e.left) \cup FieldsOf(e.right) ELSE {e.field}

NoFieldPresent(e, fm) ==
    \/ fm.t # "Mapping"
    \/ \A f \in FieldsOf(e) : \A i \in DOMAIN fm.entries : ~KeyMatches(fm, i, f)

\* C4: evaluate returns a boolean for every expression, and false whenever
\* the metadata is not a mapping or has no key matching, ignoring case, any
\* field the expression names.
C4_TotalAndSoftFailing ==
    pc = "evaluated" =>
        /\ verdict \in BOOLEAN
        /\ NoFieldPresent(expr, frontmatter) => verdict = FALSE

\* an Or of a comparison and a contains test, against a mapping with other keys
C4_Witness ==
    /\ pc = "evaluated"
    /\ expr.type = "Or"
    /\ expr.right.type = "And"
    /\ frontmatter.t = "Mapping"
    /\ frontmatter.entries # <<>>
    /\ NoFieldPresent(expr, frontmatter)
    /\ verdict = FALSE

IsStringLike(v) == v.t \in {"String", "Number", "Bool"}

TextOf(v) == yaml_to_string(v).v

\* n occurs in h: h is u \o n \o w for some u and w
IsSubstring(n, h) ==
    \E k \in 0..Len(h) : k + Len(n) <= Len(h) /\ \A i \in DOMAIN n : h[k + i] = n[i]

\* C5: with a String needle, Contains on a sequence is true iff some element
\* that is a string, number or bool equals the needle after normalization;
\* on a string, number or bool it is true iff the normalized needle is a
\* substring of the normalized field; on a mapping or null it is false.
C5_ContainsAsymmetry ==
    (/\ pc = "evaluated"
     /\ expr.type = "Contains"
     /\ expr.value.kind = "String"
     /\ get_field_case_insensitive(frontmatter, expr.field).some) =>
        LET v == get_field_case_insensitive(frontmatter, expr.field).v
            needle == normalize_for_compare(expr.value.s)
        IN  CASE v.t = "Sequence" ->
                    verdict = (\E i \in DOMAIN v.items :
                                  /\ IsStringLike(v.items[i])
                                  /\ normalize_for_compare(TextOf(v.items[i])) = needle)
              [] IsStringLike(v) ->
                    verdict = IsSubstring(needle, normalize_for_compare(TextOf(v)))
              [] OTHER -> verdict = FALSE

\* the needle is a proper substring of the only element: no match
C5_Witness ==
    /\ pc = "evaluated"
    /\ expr = Contains(S_st, StringValue(<<"b">>))
    /\ frontmatter = YMapping(<< <<YString(<<"S", "t">>), YSequence(<<YString(S_ab)>>)>> >>)
    /\ verdict = FALSE

\* The state compares a text S with "[[S]]": LinkText is S.
IsLinkCase ==
    /\ IsStringEq(expr)
    /\ frontmatter.t = "Mapping"
    /\ Len(frontmatter.entries) = 1
    /\ frontmatter.entries[1][1] = YString(expr.field)
    /\ frontmatter.entries[1][2].t = "String"
    /\ \/ frontmatter.entries[1][2].s = Wrapped(expr.value.s)
       \/ expr.value.s = Wrapped(frontmatter.entries[1][2].s)

LinkText ==
    IF frontmatter.entries[1][2].s = Wrapped(expr.value.s)
    THEN expr.value.s
    ELSE frontmatter.entries[1][2].s

IsWrapped(s) ==
    /\ Len(s) >= 4
    /\ SubSeq(s, 1, 2) = <<"[", "[">>
    /\ SubSeq(s, Len(s) - 1, Len(s)) = <<"]", "]">>

\* C8 as claimed: for every text S, "[[S]]" and S normalize to the same
\* string, so an Eq comparison of one against the other is true.
C8_LinkStrippedForEveryText ==
    (pc = "evaluated" /\ IsLinkCase) =>
        /\ normalize_for_compare(Wrapped(LinkText)) = normalize_for_compare(LinkText)
        /\ verdict = TRUE

\* C8 amended: for every text S that is not itself wrapped in "[[" and "]]",
\* "[[S]]" and S normalize to the same string, so an Eq comparison of one
\* against the other is true.
C8_LinkStrippedOnce ==
    (pc = "evaluated" /\ IsLinkCase /\ ~IsWrapped(LinkText)) =>
        /\ normalize_for_compare(Wrapped(LinkText)) = normalize_for_compare(LinkText)
        /\ verdict = TRUE

C8_Witness ==
    /\ pc = "evaluated"
    /\ expr = Compare(S_st, "Eq", StringValue(<<"N", "n">>))
    /\ frontmatter = YMapping(<< <<YString(S_st), YString(Wrapped(<<"N", "n">>))>> >>)
    /\ verdict = TRUE

\* An integer, as text: an optional '+' and one or more digits.
IsIntegerText(s) ==
    LET digits == IF s # <<>> /\ s[1] = "+" THEN Tail(s) ELSE s IN
    digits # <<>> /\ AllDigits(digits)

IntegerOf(s) == DecimalValue(IF s[1] = "+" THEN Tail(s) ELSE s)

\* (year, month, day) as one number: the order of the numbers is the
\* lexicographic order of the triples, for months and days below 1000
DateRank(y, m, d) == y * 1000000 + m * 1000 + d

OpHolds(a, op, b) ==
    CASE op = "Eq" -> a = b
      [] op = "Ne" -> a # b
      [] op = "Gt" -> a > b
      [] op = "Lt" -> a < b
      [] op = "Ge" -> a >= b
      [] op = "Le" -> a <= b

IsDateCase ==
    /\ expr.type = "Compare"
    /\ expr.value.kind = "Date"
    /\ frontmatter.t = "Mapping"
    /\ Len(frontmatter.entries) = 1
    /\ frontmatter.entries[1][1] = YString(expr.field)

DateField == frontmatter.entries[1][2]

HasThreeIntegerParts(v) ==
    /\ v.t = "String"
    /\ Len(split(v.s, "-")) = 3
    /\ \A i \in 1..3 : IsIntegerText(split(v.s, "-")[i])

FieldRank(v) ==
    LET parts == split(v.s, "-") IN
    DateRank(IntegerOf(parts[1]), IntegerOf(parts[2]), IntegerOf(parts[3]))

FitsDate(v) ==
    LET parts == split(v.s, "-") IN
    /\ IntegerOf(parts[1]) <= I32_MAX
    /\ IntegerOf(parts[2]) <= U8_MAX
    /\ IntegerOf(parts[3]) <= U8_MAX

\* C9 as claimed: a Date comparison is true iff the field is a string of
\* exactly three '-'-separated integer parts that stand in the operator's
\* relation to the query date, by (year, month, day).
C9_AnyIntegerParts ==
    (pc = "evaluated" /\ IsDateCase) =>
        verdict = (/\ HasThreeIntegerParts(DateField)
                   /\ OpHolds(FieldRank(DateField), expr.op,
                              DateRank(expr.value.d.year, expr.value.d.month, expr.value.d.day)))

\* C9 amended: ... three '-'-separated integer parts of which the month and
\* the day are at most 255 (and the year fits 32 bits) ...
C9_DatePartsFitTheirFields ==
    (pc = "evaluated" /\ IsDateCase) =>
        /\ verdict = (/\ HasThreeIntegerParts(DateField)
                      /\ FitsDate(DateField)
                      /\ OpHolds(FieldRank(DateField), expr.op,
                                 DateRank(expr.value.d.year, expr.value.d.month, expr.value.d.day)))
        /\ (expr.op = "Ge" /\ expr.value.d = Date(2024, 1, 1)) =>
              /\ DateField = YString(<<"2","0","2","4","-","0","6","-","1","5">>) => verdict = TRUE
              /\ DateField = YString(<<"2","0","2","3","-","1","2","-","3","1">>) => verdict = FALSE

\* a month that is no calendar month is compared as a number
C9_Witness ==
    /\ pc = "evaluated"
    /\ expr = Compare(S_st, "Gt", DateValue(Date(2024, 12, 1)))
    /\ frontmatter = YMapping(<< <<YString(S_st), YString(<<"2","0","2","4","-","9","9","-","0">>)>> >>)
    /\ verdict = TRUE

(***************************************************************************)
(* Properties of a query run, checked under SpecRun                        *)
(***************************************************************************)
\* document i of the run matches the parsed query
Matches(i) == evaluate(parse(input).val, frontmatters[i][2])

\* the lines printed for the first k documents: the displayed paths of
\* those that match, in input order
RECURSIVE PrintedFor(_)
PrintedFor(k) ==
    IF k = 0 THEN <<>>
    ELSE PrintedFor(k - 1)
         \o (IF Matches(k) THEN <<display_path(frontmatters[k][1], VaultPath)>> ELSE <<>>)

\* C11: in a query run, once parse has been called: if it failed, no
\* document has been evaluated, nothing is printed and the run has ended
\* with exit code 2; if it succeeded, the documents evaluated so far are
\* the first ones, each once and in input order, the printed lines are the
\* paths of exactly those among them that evaluated to true, and when the
\* run has ended every document was evaluated and the exit code is 0 if
\* some document matched and 1 otherwise.  Before parse is called, and when
\* parse panics, nothing is evaluated or printed either.
C11_NoEvaluationOnFailedParse ==
    LET r == parse(input) IN
    /\ pc = "start" =>
         outcome = NoOutcome /\ evaluated = <<>> /\ stdout = <<>> /\ exit_code = None
    /\ pc # "start" => outcome = r
    /\ (pc # "start" /\ r.tag = "Err") =>
         /\ evaluated = <<>>
         /\ stdout = <<>>
         /\ pc = "exit"
         /\ exit_code = Some(2)
    /\ (pc # "start" /\ r.tag = "Panic") =>
         evaluated = <<>> /\ stdout = <<>> /\ pc = "aborted" /\ exit_code = None
    /\ (pc # "start" /\ r.tag = "Ok") =>
         /\ pc \in {"loop", "exit"}
         /\ cursor \in 1..(Len(frontmatters) + 1)
         /\ evaluated = [i \in 1..(cursor - 1) |-> i]
         /\ stdout = PrintedFor(cursor - 1)
         /\ stderr = <<>>
         /\ pc = "loop" => exit_code = None
         /\ pc = "exit" =>
              /\ cursor = Len(frontmatters) + 1
              /\ exit_code = IF \E i \in DOMAIN frontmatters : Matches(i)
                             THEN Some(0) ELSE Some(1)

\* a run over documents, one of which the query's readable part would
\* match, has ended on a failed parse
C11_Witness ==
    /\ pc = "exit"
    /\ outcome.tag = "Err"
    /\ exit_code = Some(2)
    /\ input = <<"s", "=">> \o Quoted(S_ok) \o <<" ", "x">>
    /\ Len(frontmatters) = 2
    /\ frontmatters[1][2] = YMapping(<< <<YString(<<"s">>), YString(S_ok)>> >>)

\* a run on a parsed query has ended after printing some documents and
\* skipping others
C11_MatchedAndSkipped ==
    /\ pc = "exit"
    /\ outcome.tag = "Ok"
    /\ Len(frontmatters) = 3
    /\ Len(stdout) = 2
    /\ exit_code = Some(0)

(***************************************************************************)
(* Properties of a parse followed call by call, checked under SpecSteps    *)
(***************************************************************************)
\* the position from which frame i's callee started, or the current
\* position when frame i is the running call
ResumedAt(i) == IF i < Len(call_stack) THEN call_stack[i + 1].entry ELSE self_pos

\* the position stays inside the input, and the calls are nested in the
\* order of their positions
PositionInRange ==
    /\ self_pos \in 0..Len(input)
    /\ \A i \in DOMAIN call_stack :
         /\ call_stack[i].entry <= call_stack[i].mark
         /\ call_stack[i].mark <= ResumedAt(i)
         /\ ResumedAt(i) <= self_pos

\* a pass of the OR loop or of the AND loop that goes on, and a primary
\* that recursed after '(', has consumed at least one byte since it began
LoopsConsume ==
    \A i \in DOMAIN call_stack :
        call_stack[i].at \in {"right", "close"} => ResumedAt(i) > call_stack[i].mark

\* the methods that call each other: one frame of each for every '(' that
\* is still open, and one of each at the top level
Recursive == {"parse_or", "parse_and", "parse_primary"}

\* linear bounds.  The stack holds the frame of parse and, for the top
\* level and for each '(' consumed, one frame of each recursive method.  A
\* parse takes at most four steps for each byte of the query (a pair of
\* parentheses costs three steps going in and five coming out) and four
\* more (those of the parse of the empty query).
BoundedByLength ==
    /\ Len(call_stack) <= Cardinality(Recursive) * (self_pos + 1) + 1
    /\ Len(call_stack) <= Cardinality(Recursive) * (Len(input) + 1) + 1
    /\ step_count <= 4 * Len(input) + 4

\* the places of the four methods from which a step goes on
Places ==
    {<<"parse", "expr">>,
     <<"parse_or", "entry">>, <<"parse_or", "left">>, <<"parse_or", "loop">>,
     <<"parse_or", "right">>,
     <<"parse_and", "entry">>, <<"parse_and", "left">>, <<"parse_and", "loop">>,
     <<"parse_and", "right">>,
     <<"parse_primary", "entry">>, <<"parse_primary", "close">>}

\* a parse that has not ended has a call to go on with: the only states
\* without a next step are those of a finished parse
EndsOnlyWhenDone ==
    /\ pc \in {"start", "running", "done"}
    /\ pc = "running" =>
         call_stack # <<>> /\ <<Top.method, Top.at>> \in Places
    /\ pc = "done" => call_stack = <<>> /\ outcome.tag \in {"Ok", "Err", "Panic"}

\* the parse followed call by call ends with the result of parse
SameAsParse == pc = "done" => outcome = parse(input)

\* C12: parse terminates on every input.  The position never decreases and
\* never exceeds the input length; each pass of the OR loop and of the AND
\* loop that repeats, and each parenthesised recursion of parse_primary,
\* has consumed at least one byte; the number of active calls and the
\* number of steps taken are bounded linearly by the length of the query,
\* so no parse goes on for ever; a parse stops only when it has ended, and
\* then with the result of parse.
C12_ParseTerminates ==
    /\ [](PositionInRange /\ LoopsConsume /\ BoundedByLength
           /\ EndsOnlyWhenDone /\ SameAsParse)
    /\ [][self_pos' >= self_pos]_vars

\* a parse that went through the OR loop, the AND loop and MaxDepth nested
\* parentheses has ended with an expression
C12_Witness ==
    /\ pc = "done"
    /\ outcome.tag = "Ok"
    /\ self_pos = Len(input)
    /\ input = Repeat("(", MaxDepth) \o <<"a", "<", "2">> \o Repeat(")", MaxDepth)
    /\ step_count > 4 * MaxDepth

\* a parse is inside the right operand of an OR, itself inside parentheses
C12_InsideLoopAndParenthesis ==
    /\ pc = "running"
    /\ \E i, j \in DOMAIN call_stack :
         /\ i < j
         /\ call_stack[i].method = "parse_primary" /\ call_stack[i].at = "close"
         /\ call_stack[j].method = "parse_or" /\ call_stack[j].at = "right"

====
